---- MODULE Spec2Model ----
(***************************************************************************)
(* Model of oaistatic_mirror.py (version 1.3.13): the two entry points     *)
(* process_html_file and process_html_stream, the store directories        *)
(* cdn/assets, persistent and external_assets, the rewritten document and  *)
(* the per-run log.                                                        *)
(*                                                                         *)
(* A URL is a sequence of tokens: the scheme+host part followed by the     *)
(* path segments.  The document text is a sequence of attribute values,    *)
(* each one a sequence of tokens, so that str.replace is modelled as a     *)
(* substring replacement and not as a per-reference assignment.            *)
(***************************************************************************)
EXTENDS Integers, Sequences, FiniteSets, TLC

\* Largest number of (src|href) matches in one document.
MaxRefs == 2

----------------------------------------------------------------------------
\* Tokens

H_CDN == "https://cdn.oaistatic.com"
H_PERS == "https://persistent.oaistatic.com"
H_REL == "page_fichiers"

\* Further hosts the pattern of line 77 / 157 (https?://...) lets through.
H_CDN_HTTP == "http://cdn.oaistatic.com"
H_CDN_SUB == "https://eu.cdn.oaistatic.com"
H_CDN_LONG == "https://cdn.oaistatic.com.example.org"
H_PERS_HTTP == "http://persistent.oaistatic.com"
H_OTHER == "https://example.org"

\* File names met in URLs.
Names == {"a", "b.js"}

\* The documents' URLs: https://cdn.oaistatic.com/a is a prefix of
\* https://cdn.oaistatic.com/a/b.js.
URLS ==
  { <<H_CDN, "a">>, <<H_CDN, "a", "b.js">>, <<H_PERS, "a">>,
    <<H_REL, "b.js">> }

\* One URL per host, for the comparison of the two classifications.
HostURLS ==
  { <<h, "a">> : h \in {H_CDN, H_PERS, H_REL, H_CDN_HTTP, H_CDN_SUB,
                        H_CDN_LONG, H_PERS_HTTP, H_OTHER} }

\* Byte payloads.
Contents == {"c1", "c2"}

\* Base directories (module level of the script).
CDN_DIR == "cdn/assets"
PERSISTENT_DIR == "persistent"
EXTERNAL_DIR == "external_assets"

StoreDirs == {CDN_DIR, PERSISTENT_DIR, EXTERNAL_DIR}

StorePaths == StoreDirs \X Names

NoFile == "NoFile"

----------------------------------------------------------------------------
\* urlparse, os.path.basename, Path.suffix

\* urlparse(url): scheme, netloc (as a sequence of parts) and path.
urlparse(url) ==
  LET h == Head(url) IN
  CASE h = H_CDN -> [scheme |-> "https", netloc |-> <<"cdn.oaistatic.com">>,
                     path |-> Tail(url)]
    [] h = H_PERS -> [scheme |-> "https",
                      netloc |-> <<"persistent.oaistatic.com">>,
                      path |-> Tail(url)]
    [] h = H_CDN_HTTP -> [scheme |-> "http",
                          netloc |-> <<"cdn.oaistatic.com">>,
                          path |-> Tail(url)]
    [] h = H_CDN_SUB -> [scheme |-> "https",
                         netloc |-> <<"eu.", "cdn.oaistatic.com">>,
                         path |-> Tail(url)]
    [] h = H_CDN_LONG -> [scheme |-> "https",
                          netloc |-> <<"cdn.oaistatic.com", ".example.org">>,
                          path |-> Tail(url)]
    [] h = H_PERS_HTTP -> [scheme |-> "http",
                           netloc |-> <<"persistent.oaistatic.com">>,
                           path |-> Tail(url)]
    [] h = H_OTHER -> [scheme |-> "https", netloc |-> <<"example.org">>,
                       path |-> Tail(url)]
    [] OTHER -> [scheme |-> "", netloc |-> <<>>, path |-> url]

\* os.path.basename(parsed.path)
basename(path) == path[Len(path)]

\* Path(filename).suffix[1:]
suffix(filename) == IF filename = "b.js" THEN "js" ELSE ""

\* "<domain>" in parsed.netloc
InNetloc(domain, netloc) == \E k \in DOMAIN netloc : netloc[k] = domain

\* url.startswith("https://<domain>")
StartsWithHttps(url, domain) ==
  LET p == urlparse(url) IN
  /\ p.scheme = "https"
  /\ Len(p.netloc) > 0
  /\ p.netloc[1] = domain

\* Classification of process_html_file: new_path's directory, new_link's
\* directory and origine.
ClassifyFile(url) ==
  LET parsed == urlparse(url) IN
  IF InNetloc("cdn.oaistatic.com", parsed.netloc)
  THEN [dir |-> CDN_DIR, link |-> "../cdn/assets", origine |-> "cdn"]
  ELSE IF InNetloc("persistent.oaistatic.com", parsed.netloc)
  THEN [dir |-> PERSISTENT_DIR, link |-> "../persistent",
        origine |-> "persistent"]
  ELSE [dir |-> EXTERNAL_DIR, link |-> "../external_assets",
        origine |-> "local"]

\* Classification of process_html_stream.
ClassifyStream(url) ==
  IF StartsWithHttps(url, "cdn.oaistatic.com")
  THEN [dir |-> CDN_DIR, link |-> "../cdn/assets", origine |-> "cdn"]
  ELSE IF StartsWithHttps(url, "persistent.oaistatic.com")
  THEN [dir |-> PERSISTENT_DIR, link |-> "../persistent",
        origine |-> "persistent"]
  ELSE [dir |-> EXTERNAL_DIR, link |-> "../external_assets",
        origine |-> "local"]

\* new_path = <DIR> / filename
new_path(cls, filename) == <<cls.dir, filename>>

\* new_link = f"../<dir>/{filename}"
new_link(cls, filename) == <<cls.link, filename>>

----------------------------------------------------------------------------
\* str.replace

RECURSIVE Replace(_, _, _)
\* s.replace(old, new) on one attribute value: leftmost, non-overlapping.
Replace(s, old, new) ==
  IF Len(s) < Len(old) THEN s
  ELSE IF SubSeq(s, 1, Len(old)) = old
       THEN new \o Replace(SubSeq(s, Len(old) + 1, Len(s)), old, new)
       ELSE <<Head(s)>> \o Replace(Tail(s), old, new)

\* html.replace(url, new_link) on the whole text.
HtmlReplace(text, url, link) ==
  [k \in DOMAIN text |-> Replace(text[k], url, link)]

----------------------------------------------------------------------------
\* Store

\* An existence test that never finds the file.
ExistsNever(st, path) == FALSE

\* new_path.exists()
Exists(st, path) == st[path] # NoFile

\* open(dest, 'wb').write(bytes) / shutil.copy2(src, dest)
WriteFile(st, path, bytes) == [st EXCEPT ![path] = bytes]

\* What is left of a file whose write broke off.
Partial == "partiel"

\* download_file(url, dest): net is what the call meets: a payload (status
\* 200, written), "echec" (another status, or an exception of requests.get)
\* or "tronque" (status 200 and an exception while writing dest, which open
\* has created): the bare except turns both into False.
download_file(st, dest, net) ==
  IF net \in Contents
  THEN [ok |-> TRUE, st |-> WriteFile(st, dest, net)]
  ELSE IF net = "tronque"
  THEN [ok |-> FALSE, st |-> WriteFile(st, dest, Partial)]
  ELSE [ok |-> FALSE, st |-> st]

\* Lines 177-190 with a branch for an existing file that removes it.
ResolveFileUnlink(st, path, rep, src, net) ==
  IF Exists(st, path)
  THEN [st |-> [st EXCEPT ![path] = NoFile],
        status |-> "identique - deja present", op |-> "aucun",
        raised |-> FALSE]
  ELSE IF rep /\ src \in Contents
  THEN [st |-> WriteFile(st, path, src), status |-> "copie - local",
        op |-> "copy", raised |-> FALSE]
  ELSE [st |-> download_file(st, path, net).st,
        status |-> IF download_file(st, path, net).ok
                   THEN "reecrit - distant" ELSE "non trouve",
        op |-> "fetch", raised |-> FALSE]

\* Lines 177-190 of process_html_file: what one reference does to the
\* store.  rep is the truth value of rep_used, src what the script finds at
\* Path(rep_used) / filename ("absent", a payload, or "illisible" for an entry
\* that exists and that shutil.copy2 cannot copy), net what requests.get
\* gives.  raised: shutil.copy2 raised, which nothing catches.
ResolveFile(st, path, rep, src, net) ==
  IF ~Exists(st, path)
  THEN IF rep
       THEN IF src # "absent"
            THEN IF src \in Contents
                 THEN [st |-> WriteFile(st, path, src),
                       status |-> "copie - local", op |-> "copy",
                       raised |-> FALSE]
                 ELSE [st |-> st, status |-> "exception", op |-> "copy",
                       raised |-> TRUE]
            ELSE LET d == download_file(st, path, net) IN
                 [st |-> d.st,
                  status |-> IF d.ok THEN "reecrit - distant"
                             ELSE "non trouve",
                  op |-> "fetch", raised |-> FALSE]
       ELSE LET d == download_file(st, path, net) IN
            [st |-> d.st,
             status |-> IF d.ok THEN "reecrit - distant"
                        ELSE "non telecharge",
             op |-> "fetch", raised |-> FALSE]
  ELSE [st |-> st, status |-> "identique - deja present", op |-> "aucun",
        raised |-> FALSE]

\* Lines 97-101 of process_html_stream.
ResolveStream(st, path, net) ==
  IF ~Exists(st, path)
  THEN LET d == download_file(st, path, net) IN
       [st |-> d.st,
        status |-> IF d.ok THEN "reecrit - distant" ELSE "non telecharge",
        op |-> "fetch", raised |-> FALSE]
  ELSE [st |-> st, status |-> "identique - deja present", op |-> "aucun",
        raised |-> FALSE]

----------------------------------------------------------------------------
\* State

VARIABLES
  store,        \* the three store directories: path -> payload or NoFile
  store0,       \* the store when the current run started
  out,          \* HTML_DIR / mod_name: [exists, text]
  out0,         \* that file when the current run started
  pc,           \* position of the run
  entry,        \* "file" (process_html_file) or "stream"
  args,         \* [force, no_prompt]
  dirMode,      \* "aucun", "sibling" (dirpath exists) or "force_dir"
  cwdIsParent,  \* the working directory is the document's directory
  matches,      \* re.findall(pattern, html): the URLs, in order
  html,         \* the text being rewritten, one entry per attribute value
  idx,          \* position of the loop in matches
  log,          \* the run's log file
  ops,          \* copies and fetches attempted by the run
  seenNet,      \* what requests.get gave for each URL asked in this run
  seenLoc,      \* what the local asset directory holds, per name looked up
  rerun         \* the run repeats the previous one on the same inputs

vars ==
  <<store, store0, out, out0, pc, entry, args, dirMode, cwdIsParent, matches,
    html, idx, log, ops, seenNet, seenLoc, rerun>>

RECURSIVE SeqsUpTo(_, _)
SeqsUpTo(S, n) ==
  IF n = 0 THEN {<<>>}
  ELSE LET prev == SeqsUpTo(S, n - 1) IN
       prev \cup { Append(q, x) : q \in prev, x \in S }

Docs == SeqsUpTo(URLS, MaxRefs)

DirModes == {"aucun", "sibling", "force_dir"}

Terminal == {"introuvable", "annule", "aborted", "done"}

NoArgs == [force |-> FALSE, no_prompt |-> FALSE]

NoOut == [exists |-> FALSE, text |-> <<>>]
OldOut == [exists |-> TRUE, text |-> << <<"ancien">> >>]

\* requests.get on a relative URL raises (no scheme).
NetStates(url) ==
  IF Head(url) = H_REL THEN {"echec"} ELSE {"echec", "tronque", "c1"}

LocalStates == {"absent", "c2", "illisible"}

UnseenNet == [u \in URLS \cup HostURLS |-> "?"]
UnseenLoc == [n \in Names |-> "?"]

Init ==
  /\ store = [p \in StorePaths |-> NoFile]
  /\ store0 = [p \in StorePaths |-> NoFile]
  /\ out = NoOut
  /\ out0 = NoOut
  /\ pc = "idle"
  /\ entry = "file"
  /\ args = NoArgs
  /\ dirMode = "aucun"
  /\ cwdIsParent = TRUE
  /\ matches = <<>>
  /\ html = <<>>
  /\ idx = 1
  /\ log = <<>>
  /\ ops = <<>>
  /\ seenNet = UnseenNet
  /\ seenLoc = UnseenLoc
  /\ rerun = FALSE

----------------------------------------------------------------------------
\* process_html_file, up to the loop

\* Line 155 and lines 157-158, then the end of the function when the
\* document has no match.  args is read for the last time at line 152: from
\* here on the run does not depend on it and the model drops it.
EnterLoop(l, m, dm, o) ==
  /\ log' = Append(l, [kind |-> "repertoire", rep |-> dm])
  /\ idx' = 1
  /\ args' = NoArgs
  /\ IF m = <<>>
     THEN pc' = "done" /\ out' = [exists |-> TRUE, text |-> m]
     ELSE pc' = "loop" /\ out' = o

\* Lines 138-153: the local directory, and the question when there is none.
DirStage(l, m, a, dm, o) ==
  IF dm # "aucun" \/ a.force
  THEN EnterLoop(l, m, dm, o)
  ELSE pc' = "prompt_continuer" /\ log' = l /\ idx' = 1 /\ out' = o
       /\ args' = a

\* Lines 116-136.
Begin(m, a, dm, cw, o, sn, sl, again) ==
  /\ entry' = "file"
  /\ matches' = m
  /\ html' = m
  /\ dirMode' = dm
  /\ cwdIsParent' = cw
  /\ store' = store
  /\ store0' = store
  /\ out0' = o
  /\ ops' = <<>>
  /\ seenNet' = sn
  /\ seenLoc' = sl
  /\ rerun' = again
  /\ LET l == << [kind |-> "entete"], [kind |-> "fichier"] >> IN
     IF o.exists /\ ~a.force /\ ~a.no_prompt
     THEN pc' = "prompt_remplacer" /\ log' = l /\ idx' = 1 /\ out' = o
          /\ args' = a
     ELSE DirStage(l, m, a, dm, o)

\* Lines 116-119: the input file does not exist.
StartMissing ==
  /\ pc = "idle"
  /\ pc' = "introuvable"
  /\ entry' = "file"
  /\ matches' = <<>>
  /\ html' = <<>>
  /\ args' = NoArgs
  /\ dirMode' = "aucun"
  /\ cwdIsParent' = TRUE
  /\ store0' = store
  /\ out' = NoOut
  /\ out0' = NoOut
  /\ idx' = 1
  /\ log' = <<>>
  /\ ops' = <<>>
  /\ seenNet' = UnseenNet
  /\ seenLoc' = UnseenLoc
  /\ rerun' = FALSE
  /\ UNCHANGED store

\* A run of process_html_file on some document, options and directories.
StartFile ==
  /\ pc = "idle"
  /\ \E m \in Docs, f \in BOOLEAN, np \in BOOLEAN, dm \in DirModes,
        cw \in BOOLEAN, o \in {NoOut, OldOut} :
       /\ dm # "sibling" => cw
       /\ Begin(m, [force |-> f, no_prompt |-> np], dm, cw, o,
                UnseenNet, UnseenLoc, FALSE)

\* A second run of process_html_file on the document, the directories and
\* the fetch results of the run that has just completed, with any options.
Rerun ==
  /\ pc = "done"
  /\ entry = "file"
  /\ ~rerun
  /\ \E f \in BOOLEAN, np \in BOOLEAN :
       Begin(matches, [force |-> f, no_prompt |-> np], dirMode, cwdIsParent,
             out, seenNet, seenLoc, TRUE)

\* Line 133-136: the operator answers "Remplacer ?".
AnswerRemplacer ==
  /\ pc = "prompt_remplacer"
  /\ \E resp \in {"y", "n"} :
       IF resp # "y"
       THEN pc' = "annule" /\ UNCHANGED <<log, idx, out, args>>
       ELSE DirStage(log, matches, args, dirMode, out)
  /\ UNCHANGED <<store, store0, out0, entry, dirMode, cwdIsParent, matches,
                 html, ops, seenNet, seenLoc, rerun>>

\* Lines 152-153: the operator answers "Voulez-vous continuer ?".
AnswerContinuer ==
  /\ pc = "prompt_continuer"
  /\ \E resp \in {"y", "n"} :
       IF resp # "y"
       THEN pc' = "annule" /\ UNCHANGED <<log, idx, out, args>>
       ELSE EnterLoop(log, matches, dirMode, out)
  /\ UNCHANGED <<store, store0, out0, entry, dirMode, cwdIsParent, matches,
                 html, ops, seenNet, seenLoc, rerun>>

----------------------------------------------------------------------------
\* The loops

LocChoices(filename) ==
  IF seenLoc[filename] = "?" THEN LocalStates ELSE {seenLoc[filename]}

NetChoices(url) ==
  IF seenNet[url] = "?" THEN NetStates(url) ELSE {seenNet[url]}

\* What the script finds at Path(rep_used) / filename when the directory in
\* use holds loc under that name.  rep_used is the bare name of the sibling
\* directory (line 144) or args.force_dir (line 146), and the path is
\* resolved from the working directory: with the sibling directory and a
\* working directory that is not the document's, nothing is found.
src_file(loc) ==
  IF dirMode = "sibling" /\ ~cwdIsParent THEN "absent" ELSE loc

RefRecord(url, link, filename, status, origine) ==
  [kind |-> "ref", url |-> url, new_link |-> link,
   suffix |-> suffix(filename), status |-> status, origine |-> origine]

\* One iteration of the loop of process_html_file (lines 160-193) and, after
\* the last one, lines 195-196.
ProcessRefFile ==
  /\ pc = "loop"
  /\ entry = "file"
  /\ LET url == matches[idx]
         parsed == urlparse(url)
         filename == basename(parsed.path)
         cls == ClassifyFile(url)
         path == new_path(cls, filename)
         link == new_link(cls, filename)
         rep == dirMode # "aucun"
         askLoc == ~Exists(store, path) /\ rep
     IN
     \E loc \in (IF askLoc THEN LocChoices(filename) ELSE {"?"}) :
       LET src == IF askLoc THEN src_file(loc) ELSE "?"
           askNet == ~Exists(store, path) /\ (~rep \/ src = "absent")
       IN
       \E net \in (IF askNet THEN NetChoices(url) ELSE {"?"}) :
         LET r == ResolveFile(store, path, rep, src, net) IN
         /\ store' = r.st
         /\ seenLoc' = IF askLoc THEN [seenLoc EXCEPT ![filename] = loc]
                       ELSE seenLoc
         /\ seenNet' = IF askNet THEN [seenNet EXCEPT ![url] = net]
                       ELSE seenNet
         /\ ops' = IF r.op = "aucun" THEN ops
                   ELSE Append(ops, [kind |-> r.op, path |-> path,
                                     ref |-> idx])
         /\ IF r.raised
            THEN pc' = "aborted" /\ UNCHANGED <<html, log, idx, out>>
            ELSE /\ html' = HtmlReplace(html, url, link)
                 /\ log' = Append(log, RefRecord(url, link, filename,
                                                 r.status, cls.origine))
                 /\ IF idx = Len(matches)
                    THEN /\ pc' = "done"
                         /\ idx' = idx
                         /\ out' = [exists |-> TRUE, text |-> html']
                    ELSE /\ pc' = "loop"
                         /\ idx' = idx + 1
                         /\ out' = out
  /\ UNCHANGED <<store0, out0, entry, args, dirMode, cwdIsParent, matches,
                 rerun>>

\* process_html_stream up to its loop (lines 65-78); with no match, its end
\* (lines 106-113): the text goes to HTML_DIR when stdout is a terminal, to
\* stdout otherwise.
BeginStream(m, o, tty) ==
  /\ entry' = "stream"
  /\ matches' = m
  /\ html' = m
  /\ args' = NoArgs
  /\ dirMode' = "aucun"
  /\ cwdIsParent' = TRUE
  /\ store0' = store
  /\ out0' = o
  /\ ops' = <<>>
  /\ seenNet' = UnseenNet
  /\ seenLoc' = UnseenLoc
  /\ rerun' = FALSE
  /\ idx' = 1
  /\ log' = << [kind |-> "entete"], [kind |-> "fichier"],
               [kind |-> "repertoire", rep |-> "aucun"] >>
  /\ IF m = <<>>
     THEN /\ pc' = "done"
          /\ out' = IF tty THEN [exists |-> TRUE, text |-> m] ELSE o
     ELSE pc' = "loop" /\ out' = o
  /\ UNCHANGED store

\* A run of process_html_stream on some document.
StartStream ==
  /\ pc = "idle"
  /\ \E m \in Docs, o \in {NoOut, OldOut}, tty \in BOOLEAN :
       BeginStream(m, o, tty)

\* One iteration of the loop of process_html_stream (lines 80-104) and, after
\* the last one, lines 106-113.
ProcessRefStream ==
  /\ pc = "loop"
  /\ entry = "stream"
  /\ LET url == matches[idx]
         parsed == urlparse(url)
         filename == basename(parsed.path)
         cls == ClassifyStream(url)
         path == new_path(cls, filename)
         link == new_link(cls, filename)
         askNet == ~Exists(store, path)
     IN
     \E net \in (IF askNet THEN NetChoices(url) ELSE {"?"}), tty \in BOOLEAN :
       LET r == ResolveStream(store, path, net) IN
       /\ store' = r.st
       /\ seenNet' = IF askNet THEN [seenNet EXCEPT ![url] = net]
                     ELSE seenNet
       /\ ops' = IF r.op = "aucun" THEN ops
                 ELSE Append(ops, [kind |-> r.op, path |-> path,
                                   ref |-> idx])
       /\ html' = HtmlReplace(html, url, link)
       /\ log' = Append(log, RefRecord(url, link, filename, r.status,
                                       cls.origine))
       /\ IF idx = Len(matches)
          THEN /\ pc' = "done"
               /\ idx' = idx
               /\ out' = IF tty THEN [exists |-> TRUE, text |-> html']
                         ELSE out
          ELSE /\ pc' = "loop"
               /\ idx' = idx + 1
               /\ out' = out
  /\ UNCHANGED <<store0, out0, entry, args, dirMode, cwdIsParent, matches,
                 seenLoc, rerun>>

\* The process ends (return from main): what it held in memory is gone, the
\* store directories stay.
Exit ==
  /\ pc \in Terminal
  /\ pc' = "idle"
  /\ store0' = store
  /\ out' = NoOut
  /\ out0' = NoOut
  /\ entry' = "file"
  /\ args' = NoArgs
  /\ dirMode' = "aucun"
  /\ cwdIsParent' = TRUE
  /\ matches' = <<>>
  /\ html' = <<>>
  /\ idx' = 1
  /\ log' = <<>>
  /\ ops' = <<>>
  /\ seenNet' = UnseenNet
  /\ seenLoc' = UnseenLoc
  /\ rerun' = FALSE
  /\ UNCHANGED store

Next ==
  \/ StartMissing
  \/ StartFile
  \/ Rerun
  \/ AnswerRemplacer
  \/ AnswerContinuer
  \/ ProcessRefFile
  \/ StartStream
  \/ ProcessRefStream
  \/ Exit

Spec == Init /\ [][Next]_vars

----------------------------------------------------------------------------
\* The two entry points on one reference of any host

\* process_html_file --force on a document with one reference.
StartFileHost ==
  /\ pc = "idle"
  /\ \E u \in HostURLS, dm \in DirModes :
       Begin(<<u>>, [force |-> TRUE, no_prompt |-> FALSE], dm, TRUE, NoOut,
             UnseenNet, UnseenLoc, FALSE)

\* process_html_stream on a document with one reference.
StartStreamHost ==
  /\ pc = "idle"
  /\ \E u \in HostURLS, tty \in BOOLEAN : BeginStream(<<u>>, NoOut, tty)

NextHost ==
  \/ StartFileHost
  \/ StartStreamHost
  \/ ProcessRefFile
  \/ ProcessRefStream
  \/ Exit

SpecHost == Init /\ [][NextHost]_vars

----------------------------------------------------------------------------
\* Properties

IsRef(r) == r.kind = "ref"

\* The log's records of references, in the order written.
RefLog == SelectSeq(log, IsRef)

NotFoundStatus == {"non trouve", "non telecharge"}

WrittenStatus == {"copie - local", "reecrit - distant"}

\* C1: across any sequence of runs of either entry point, a file that exists
\* in a store directory keeps its content: every step leaves every existing
\* store file as it was.
C1_NoOverwrite ==
  [][\A p \in StorePaths : store[p] # NoFile => store'[p] = store[p]]_vars

\* A run wrote a file into the store and a reference of the run met a file
\* that was already there.
C1_Witness ==
  /\ \E k \in DOMAIN RefLog : RefLog[k].status = "identique - deja present"
  /\ \E k \in DOMAIN RefLog : RefLog[k].status \in WrittenStatus
  /\ \E p \in StorePaths : store[p] # NoFile

\* The bytes a reference of process_html_file brings, when the run has seen
\* them: the local copy first, else what the fetch gives.
Candidate(url) ==
  LET filename == basename(urlparse(url).path) IN
  IF dirMode # "aucun" /\ src_file(seenLoc[filename]) \in Contents
  THEN seenLoc[filename]
  ELSE seenNet[url]

\* C2: a reference whose candidate bytes differ from the file already stored
\* under its key gets a final path different from that file's path, and both
\* payloads are in the store, under the key's directory, afterwards.
C2_Claim ==
  (entry = "file" /\ pc \in {"loop", "done"}) =>
    \A k \in DOMAIN RefLog :
      LET url == RefLog[k].url
          cls == ClassifyFile(url)
          path == new_path(cls, basename(urlparse(url).path))
      IN
      (/\ store0[path] # NoFile
       /\ Candidate(url) \in Contents
       /\ Candidate(url) # store0[path])
      => /\ RefLog[k].new_link # new_link(cls, path[2])
         /\ store[path] = store0[path]
         /\ \E p \in StorePaths : p[1] = path[1] /\ store[p] = Candidate(url)

C4_Claim ==
  pc = "done" =>
    \A k \in DOMAIN RefLog :
      RefLog[k].status \in NotFoundStatus => html[k] = matches[k]

\* C5: within one run at most one copy or fetch is made for each
\* (origin, filename) key.
C5_Claim ==
  \A i \in DOMAIN ops : \A j \in DOMAIN ops :
    i # j => ops[i].path # ops[j].path

\* A reference of the run failed: its fetch, or the copy of its local file.
ErrorSeen ==
  \/ pc = "aborted"
  \/ \E k \in DOMAIN RefLog : RefLog[k].status \in NotFoundStatus

\* C6: after an error on one reference, the run of process_html_file still
\* processes every reference, logs each and writes the output document.
C6_Claim ==
  (entry = "file" /\ pc \in {"done", "aborted"} /\ ErrorSeen) =>
    /\ pc = "done"
    /\ Len(RefLog) = Len(matches)
    /\ out = [exists |-> TRUE, text |-> html]

\* C7: with --no-prompt, process_html_file never waits for the operator.
C7_Claim ==
  (entry = "file" /\ args.no_prompt) =>
    pc \notin {"prompt_remplacer", "prompt_continuer"}

\* C8: the log of a run that went through its loop holds exactly one record
\* per extracted reference, in the order of the references, and no step
\* changes or removes a record of the log of the run in progress.
C8_Claim ==
  /\ [](pc \in {"done", "aborted"} =>
          /\ Len(RefLog) = Len(matches)
          /\ \A k \in DOMAIN RefLog : RefLog[k].url = matches[k])
  /\ [][(pc \notin Terminal /\ pc # "idle") =>
          /\ Len(log') >= Len(log)
          /\ SubSeq(log', 1, Len(log)) = log]_vars

\* C9: for every reference that was resolved, the output document holds the
\* final path assigned to it as an attribute value and holds its original URL
\* at no attribute value.
C9_Claim ==
  pc = "done" =>
    \A k \in DOMAIN RefLog :
      RefLog[k].status \notin NotFoundStatus =>
        /\ \E j \in DOMAIN html : html[j] = RefLog[k].new_link
        /\ \A j \in DOMAIN html : html[j] # RefLog[k].url

\* C10: process_html_file fetches a reference only when no local directory
\* is in use or the directory in use lacks the reference's file name.
C10_Claim ==
  entry = "file" =>
    \A i \in DOMAIN ops :
      ops[i].kind = "fetch" =>
        \/ dirMode = "aucun"
        \/ seenLoc[ops[i].path[2]] = "absent"

\* C11: the two entry points classify every URL alike: what a run logs and
\* writes for a reference (origine, rewritten link, store directory) is what
\* the other entry point's classification gives for the same URL.
C11_Claim ==
  LET other(u) == IF entry = "file" THEN ClassifyStream(u)
                  ELSE ClassifyFile(u)
  IN
  /\ \A k \in DOMAIN RefLog :
       LET u == RefLog[k].url IN
       /\ RefLog[k].origine = other(u).origine
       /\ RefLog[k].new_link = new_link(other(u), basename(urlparse(u).path))
  /\ \A i \in DOMAIN ops :
       ops[i].path[1] = other(matches[ops[i].ref]).dir

====
